---------------------------- MODULE Spec2Model ----------------------------
(***************************************************************************)
(* Model of the SCGen backend generation pipeline: the /api/generate       *)
(* handler, its persona pipeline (processWithPersona behind the global     *)
(* axios retry interceptor), and the in-process contract cache.            *)
(***************************************************************************)
EXTENDS Integers, Sequences, FiniteSets, TLC

(***************************************************************************)
(* Bounds of the model.                                                    *)
(***************************************************************************)
\* number of requests a behaviour issues
MaxReqs == 2
\* number of npm publications of a tracked package in a behaviour
MaxPublish == 1
\* number of requests of the client that asks for the same contract again
MaxRereads == 3
\* number of POSTs of the browser's retry loop a behaviour follows
MaxPosts == 5
\* number of ports, from DEFAULT_PORT on, whose state matters to startServer
NumPorts == 4
\* number of httpServer.listen calls of startServer a behaviour tells apart
MaxListens == 3

(***************************************************************************)
(* Program constants.                                                      *)
(***************************************************************************)
\* const CACHE_DURATION = 7 * 24 * 60 * 60 * 1000
CACHE_DURATION == 604800000
DEFAULT_PORT == 3001
MAX_PORT_ATTEMPTS == 10
\* config.maxRetries = config.maxRetries || 3
maxRetries == 3
\* responseText.length < 50
MinResponseLength == 50

\* process.env.SOLIDITY_VERSION || '0.8.20'
SOLIDITY_VERSION == "0.8.20"

EntityType == {"PRIVATE LIMITED COMPANY", "PUBLIC LIMITED COMPANY", "PARTNERSHIP", "LLP"}
TransactionType == {"B2B", "B2C", "P2P"}
ContractType == {"Equity Tokenization", "Revenue Sharing", "Supply Chain", "White Label",
                 "Vesting Agreements", "Governance Token", "Staking Contract", "Liquidity Pool"}

\* PERSONA_CONFIGS keys
Personas == {"nanjunda", "achyutha", "sandeep"}

\* provider priority inside processWithPersona: Together, OpenRouter, AIML
ProviderOrder == <<"together", "openrouter", "aiml">>
NumProviders == Len(ProviderOrder)

\* A version string is the sequence of its characters.
V_5_0_0 == <<"5", ".", "0", ".", "0">>
V_5_0_1 == <<"5", ".", "0", ".", "1">>
V_10_0_0 == <<"1", "0", ".", "0", ".", "0">>

\* metadata.dependencies written with every cache entry: '^5.0.0' for both
Packages == {"@openzeppelin/contracts-upgradeable", "@openzeppelin/contracts"}
RecordedDependencies == [p \in Packages |-> <<"^">> \o V_5_0_0]

\* UTF-16 code unit of the characters version strings are made of
CharCode(c) ==
    CASE c = "." -> 46
      [] c = "0" -> 48
      [] c = "1" -> 49
      [] c = "5" -> 53
      [] c = "^" -> 94

\* a < b on JavaScript strings: by code units, a proper prefix being smaller
RECURSIVE StringLess(_, _)
StringLess(a, b) ==
    IF b = << >> THEN FALSE
    ELSE IF a = << >> THEN TRUE
    ELSE IF CharCode(Head(a)) # CharCode(Head(b)) THEN CharCode(Head(a)) < CharCode(Head(b))
    ELSE StringLess(Tail(a), Tail(b))

\* version.replace('^', ''): the first '^' removed
RECURSIVE StripCaret(_)
StripCaret(version) ==
    IF version = << >> THEN << >>
    ELSE IF Head(version) = "^" THEN Tail(version)
    ELSE <<Head(version)>> \o StripCaret(Tail(version))

(***************************************************************************)
(* Text.  A text is abstracted to its length and the set of substrings     *)
(* (among those the program searches for) it contains; String.includes is  *)
(* membership in that set.                                                 *)
(***************************************************************************)
includes(text, marker) == marker \in text.marks

NoText == [id |-> "", len |-> 0, marks |-> {}]

CodeBasics == {"SPDX-License-Identifier", "pragma solidity", "contract", "contract ", "function "}

GoodCode == [id |-> "good", len |-> 600, marks |-> CodeBasics]
TodoCode == [id |-> "todo", len |-> 600, marks |-> CodeBasics \cup {"TODO"}]
EllipsisCode == [id |-> "ellipsis", len |-> 600, marks |-> CodeBasics \cup {"..."}]
NoLicenseCode == [id |-> "nolicense", len |-> 600, marks |-> CodeBasics \ {"SPDX-License-Identifier"}]
ShortCode == [id |-> "short", len |-> 30, marks |-> {"contract", "contract "}]
Prose == [id |-> "prose", len |-> 200, marks |-> {}]
ShortProse == [id |-> "shortprose", len |-> 20, marks |-> {}]

\* the texts a provider may answer with, per persona
ProviderTexts(persona) ==
    IF persona = "achyutha"
    THEN {ShortCode, GoodCode, TodoCode, EllipsisCode}
    ELSE {ShortProse, Prose}

\* the same, with the empty answer and the code without a license header
AllProviderTexts(persona) ==
    IF persona = "achyutha"
    THEN ProviderTexts(persona) \cup {NoText, NoLicenseCode}
    ELSE ProviderTexts(persona) \cup {NoText}

\* HTTP status of a failed provider call; 0 stands for no response at all
\* (timeout, connection reset)
ErrorStatuses == {0, 401, 429}

(***************************************************************************)
(* Requests.  customizations is a JavaScript object: a sequence of         *)
(* <<key, value>> pairs in insertion order.                                *)
(***************************************************************************)
\* JavaScript values: a string, an array of strings (a JSON body may carry
\* one where a string is expected), or undefined
Undefined == [type |-> "undefined"]

Str(s) == [type |-> "string", text |-> s]

Arr(items) == [type |-> "array", items |-> items]

\* x || ''
OrEmpty(x) == IF x.type = "undefined" THEN Str("") ELSE x

\* Array.prototype.join: the elements separated by commas
RECURSIVE Join(_)
Join(items) ==
    IF items = << >> THEN ""
    ELSE IF Len(items) = 1 THEN Head(items)
    ELSE Head(items) \o "," \o Join(Tail(items))

\* ${x} inside a template literal, and x as a property key: the string
\* itself, the word undefined, the joined elements of an array
Interpolate(x) ==
    CASE x.type = "undefined" -> "undefined"
      [] x.type = "string" -> x.text
      [] x.type = "array" -> Join(x.items)

\* Object.values(Enum).includes(x): strict equality with one of the strings
Includes(enum, x) == x.type = "string" /\ x.text \in enum

CustAB == << <<"extraParams", "uint256 cap">>, <<"constructorLogic", "_pause();">> >>
CustBA == << <<"constructorLogic", "_pause();">>, <<"extraParams", "uint256 cap">> >>
CustOther == << <<"extraParams", "address admin">>, <<"constructorLogic", "_pause();">> >>

Body(e, t, c, cust) ==
    [entityType |-> Str(e), transactionType |-> Str(t), contractType |-> Str(c),
     customizations |-> cust]

RequestBodies ==
    { Body("LLP", "B2B", "Equity Tokenization", CustAB),
      Body("LLP", "B2B", "Equity Tokenization", CustOther),
      Body("TRUST", "B2B", "Equity Tokenization", << >>) }

NoBody == Body("", "", "", << >>)

\* customizations?.key || ''
RECURSIVE Lookup(_, _)
Lookup(cust, key) ==
    IF cust = << >> THEN ""
    ELSE IF Head(cust)[1] = key THEN Head(cust)[2]
    ELSE Lookup(Tail(cust), key)

(***************************************************************************)
(* Pure functions of the server.                                           *)
(***************************************************************************)
\* `${entityType}_${transactionType}_${contractType}_${SOLIDITY_VERSION}`
generateCacheKey(entityType, transactionType, contractType) ==
    Interpolate(entityType) \o "_" \o Interpolate(transactionType) \o "_"
        \o Interpolate(contractType) \o "_" \o SOLIDITY_VERSION

\* JSON.stringify of a customizations object, keys in insertion order
RECURSIVE Stringify(_)
Stringify(cust) ==
    IF cust = << >> THEN ""
    ELSE Head(cust)[1] \o ":" \o Head(cust)[2] \o ";" \o Stringify(Tail(cust))

\* a key that appends the customizations as they were written
CacheKeyOfWithCustomizations(body) ==
    generateCacheKey(body.entityType, body.transactionType, body.contractType)
        \o "_" \o Stringify(body.customizations)

\* the key /api/generate computes from a request body: customizations is
\* destructured from the body but not passed to generateCacheKey
CacheKeyOf(body) ==
    generateCacheKey(body.entityType, body.transactionType, body.contractType)

\* Object.values(Enum).includes(x) for the three enums
ValidParameters(body) ==
    /\ Includes(EntityType, body.entityType)
    /\ Includes(TransactionType, body.transactionType)
    /\ Includes(ContractType, body.contractType)

\* the fragment tables: one entry for each member of the enum
contractTemplates(contractType) ==
    IF contractType \in ContractType
    THEN Str("contractTemplates[" \o contractType \o "]") ELSE Undefined

entityFeatures(entityType) ==
    IF entityType \in EntityType
    THEN Str("entityFeatures[" \o entityType \o "]") ELSE Undefined

transactionFeatures(transactionType) ==
    IF transactionType \in TransactionType
    THEN Str("transactionFeatures[" \o transactionType \o "]") ELSE Undefined

\* the four helpers return the table entry as it is
getEntityInitialization(entityType) ==
    IF entityType \in EntityType
    THEN Str("initializations[" \o entityType \o "]") ELSE Undefined

getTransactionInitialization(transactionType) ==
    IF transactionType \in TransactionType
    THEN Str("initializations[" \o transactionType \o "]") ELSE Undefined

getEntityFunctions(entityType) ==
    IF entityType \in EntityType
    THEN Str("functions[" \o entityType \o "]") ELSE Undefined

getTransactionFunctions(transactionType) ==
    IF transactionType \in TransactionType
    THEN Str("functions[" \o transactionType \o "]") ELSE Undefined

\* the fragments getContractTemplate puts into its skeleton, in the order of
\* the text, each as the template literal prints it
TemplateFragments(contractType, entityType, transactionType, customizations) ==
    << Interpolate(OrEmpty(contractTemplates(contractType))),
       Interpolate(OrEmpty(entityFeatures(entityType))),
       Interpolate(OrEmpty(transactionFeatures(transactionType))),
       Lookup(customizations, "extraParams"),
       Interpolate(getEntityInitialization(entityType)),
       Interpolate(getTransactionInitialization(transactionType)),
       Lookup(customizations, "constructorLogic"),
       Interpolate(getEntityFunctions(entityType)),
       Interpolate(getTransactionFunctions(transactionType)) >>

\* getContractTemplate: the base template with the request's values spliced
\* in; it always carries the license, pragma, contract and the trailing
\* "// ... rest of the base contract code ..." comment
getContractTemplate(contractType, entityType, transactionType, customizations) ==
    [id |-> "template{" \o contractType \o "|" \o entityType \o "|" \o transactionType
              \o "|" \o Lookup(customizations, "extraParams")
              \o "|" \o Lookup(customizations, "constructorLogic") \o "}",
     len |-> 5000,
     marks |-> CodeBasics \cup {"...", "rest of", "constructor"},
     fragments |-> TemplateFragments(contractType, entityType, transactionType,
                                     customizations)]

\* the template of a request; every use getContractTemplate makes of its
\* arguments, in the text and as a table key, is of their string form
TemplateOf(body) ==
    getContractTemplate(Interpolate(body.contractType), Interpolate(body.entityType),
                        Interpolate(body.transactionType),
                        body.customizations)

\* the inline check of the generated code in the code generation phase
GeneratedCodeIsComplete(generatedCode) ==
    /\ includes(generatedCode, "SPDX-License-Identifier")
    /\ includes(generatedCode, "pragma solidity")
    /\ includes(generatedCode, "contract")
    /\ ~includes(generatedCode, "...")
    /\ ~includes(generatedCode, "rest of")
    /\ ~includes(generatedCode, "remains the same")

\* !responseText || responseText.length < 50
ResponseTooShort(responseText) ==
    responseText.len = 0 \/ responseText.len < MinResponseLength

\* the interceptor's "don't retry on these status codes"
NoRetryStatus(status) == status \in {400, 401, 403}

\* a backoff whose first delay is one second
backoffDelayFromOneSecond(retryCount) == (2 ^ (retryCount - 1)) * 1000

\* Math.pow(2, config.retryCount) * 1000
backoffDelay(retryCount) == (2 ^ retryCount) * 1000

\* a lookup that serves an entry whatever its age
CacheHitNeverExpires(cache, key, t) == key \in DOMAIN cache

\* the cache-hit test of /api/generate
CacheHit(cache, key, t) ==
    /\ key \in DOMAIN cache
    /\ (t - cache[key].timestamp) < CACHE_DURATION

\* the last provider after index i whose API key is configured
NextProviderFromLast(i, keys) ==
    IF \E j \in (i + 1)..NumProviders : ProviderOrder[j] \in keys
    THEN CHOOSE j \in (i + 1)..NumProviders :
            /\ ProviderOrder[j] \in keys
            /\ \A k \in (j + 1)..NumProviders : ProviderOrder[k] \notin keys
    ELSE NumProviders + 1

\* the next provider after index i whose API key is configured; NumProviders + 1
\* when there is none
NextProvider(i, keys) ==
    IF \E j \in (i + 1)..NumProviders : ProviderOrder[j] \in keys
    THEN CHOOSE j \in (i + 1)..NumProviders :
            /\ ProviderOrder[j] \in keys
            /\ \A k \in (i + 1)..(j - 1) : ProviderOrder[k] \notin keys
    ELSE NumProviders + 1

(***************************************************************************)
(* State.                                                                  *)
(***************************************************************************)
VARIABLES
    now,            \* Date.now()
    nreq,           \* requests received so far
    latest,         \* npm registry: latest version of each tracked package
    npublish,       \* publications so far
    apiKeys,        \* providers whose API key is set in process.env
    mode,           \* per provider: "auth" (it rejects every call with 401) or "any"
    contractCache,  \* Map<string, CacheEntry>
    pc,             \* per connection: "idle", "generating", "storing", "responding", "done"
    body,           \* per connection: req.body of the request being served
    cacheKey,       \* per connection: the handler's cacheKey
    task,           \* per connection and persona: the processWithPersona call
    response,       \* per connection: what res.json sent
    prev,           \* the request served before the current one, as answered
    lookup,         \* what the last getFromCache call returned
    template,       \* a call of getContractTemplate: its arguments and what it returned
    client,         \* the browser's handleGenerateContract: its retry loop
    server,         \* startServer: its loop over ports
    api             \* a request sent through the frontend's apiClient

vars == <<now, nreq, latest, npublish, apiKeys, mode, contractCache, pc, body, cacheKey,
          task, response, prev, lookup,
         template, client, server, api>>

\* the state of the /api/generate handler and of the cache
handlerVars == <<now, nreq, latest, npublish, apiKeys, mode, contractCache, pc, body, cacheKey,
          task, response, prev, lookup>>

\* the state of the operations outside the handler
outside == <<template, client, server, api>>

\* client connections; each carries one request at a time
Reqs == {"c1", "c2"}
ProviderIdx == 1..NumProviders

\* the key configurations the model starts from (the server exits at start-up
\* when no key is set)
KeyConfigs == { {"together", "openrouter", "aiml"}, {"openrouter", "aiml"} }

\* versions the registry may publish
Versions == {V_5_0_0, V_5_0_1, V_10_0_0}

NoPrompt ==
    [kind |-> "", contractType |-> "", entityType |-> "", transactionType |-> "",
     template |-> NoText]

\* the user message of each persona task: a fixed text with the fields of the
\* request filled in, and for the code task the template of the request
analysisPrompt(b) ==
    [kind |-> "Analyze the requirements", contractType |-> Interpolate(b.contractType),
     entityType |-> Interpolate(b.entityType),
     transactionType |-> Interpolate(b.transactionType),
     template |-> NoText]

codePrompt(b) ==
    [kind |-> "Generate a complete, production-ready Solidity smart contract",
     contractType |-> Interpolate(b.contractType),
     entityType |-> Interpolate(b.entityType),
     transactionType |-> Interpolate(b.transactionType), template |-> TemplateOf(b)]

securityPrompt(b) ==
    [kind |-> "Analyze critical security aspects",
     contractType |-> Interpolate(b.contractType),
     entityType |-> Interpolate(b.entityType),
     transactionType |-> Interpolate(b.transactionType),
     template |-> NoText]

PromptOf(persona, b) ==
    CASE persona = "nanjunda" -> analysisPrompt(b)
      [] persona = "achyutha" -> codePrompt(b)
      [] persona = "sandeep" -> securityPrompt(b)

NoTask ==
    [st |-> "idle", prov |-> 0, retryCount |-> 0, delay |-> 0, result |-> NoText,
     prompt |-> NoPrompt]

NoResponse ==
    [status |-> 0, success |-> FALSE, fromCache |-> "undefined", code |-> NoText,
     analysis |-> NoText, security |-> NoText, error |-> "", at |-> 0]

NoPrev == [conn |-> "", body |-> NoBody, cacheKey |-> "", status |-> 0,
           fromCache |-> "undefined", at |-> 0]

NoCall == [st |-> "idle"]

NoClient == [st |-> "idle"]

NoServer == [st |-> "idle"]

NoApi == [st |-> "idle"]

NoLookup == [key |-> "", result |-> "none"]

InitHandler(keyConfigs, modes) ==
    /\ now = 0
    /\ nreq = 0
    /\ latest = [p \in Packages |-> V_5_0_0]
    /\ npublish = 0
    /\ apiKeys \in keyConfigs
    /\ mode \in [ProviderIdx -> modes]
    /\ contractCache = [k \in {} |-> NoText]
    /\ pc = [r \in Reqs |-> "idle"]
    /\ body = [r \in Reqs |-> NoBody]
    /\ cacheKey = [r \in Reqs |-> ""]
    /\ task = [r \in Reqs |-> [p \in Personas |-> NoTask]]
    /\ response = [r \in Reqs |-> NoResponse]
    /\ prev = NoPrev
    /\ lookup = NoLookup

\* nothing outside the handler has been started
InitOutside ==
    /\ template = NoCall
    /\ client = NoClient
    /\ server = NoServer
    /\ api = NoApi

InitWith(keyConfigs, modes) == InitHandler(keyConfigs, modes) /\ InitOutside

Init == InitWith({{"together", "openrouter", "aiml"}}, {"any"})

(***************************************************************************)
(* processWithPersona behind the axios interceptor.                        *)
(***************************************************************************)
\* axios.post to provider j: a fresh request config (retryCount unset)
CallProvider(t, j) ==
    [t EXCEPT !.st = "inflight", !.prov = j, !.retryCount = 0, !.delay = 0]

\* the catch block of one provider falls through to the next try block; after
\* the last one: throw new Error('Failed to generate content with any
\* available API')
FallThrough(t, keys) ==
    LET j == NextProvider(t.prov, keys) IN
    IF j > NumProviders
    THEN [t EXCEPT !.st = "rejected", !.prov = j, !.retryCount = 0, !.delay = 0]
    ELSE CallProvider(t, j)

\* an error handler without the interceptor's list of statuses it leaves alone
OnProviderErrorRetryingAll(t, status, keys) ==
    IF t.retryCount < maxRetries
    THEN [t EXCEPT !.retryCount = @ + 1,
                   !.delay = backoffDelay(t.retryCount + 1)]
    ELSE FallThrough(t, keys)

\* the response interceptor's error handler: what becomes of the task when
\* the call in flight fails with the given status
OnProviderError(t, status, keys) ==
    IF NoRetryStatus(status)
    THEN FallThrough(t, keys)
    ELSE IF t.retryCount < maxRetries
    THEN [t EXCEPT !.retryCount = @ + 1,
                   !.delay = backoffDelay(t.retryCount + 1)]
    ELSE FallThrough(t, keys)

\* a 200 answer: the "basic response validation" throws into the provider's
\* own catch block, otherwise processWithPersona returns the text
OnProviderText(t, responseText, keys) ==
    IF ResponseTooShort(responseText)
    THEN FallThrough(t, keys)
    ELSE [t EXCEPT !.st = "resolved", !.result = responseText]

\* a code phase that hands on whatever processWithPersona returned
PhaseOutcomeUnchecked(persona, t) == t

\* the async function wrapped around processWithPersona in Promise.all: only
\* the code generation phase checks what it got, and throws
PhaseOutcome(persona, t) ==
    IF persona = "achyutha" /\ t.st = "resolved" /\ ~GeneratedCodeIsComplete(t.result)
    THEN [t EXCEPT !.st = "invalid", !.result = NoText]
    ELSE t

PhaseError(t) ==
    IF t.st = "invalid" THEN "Generated code is incomplete or invalid"
    ELSE "Failed to generate content with any available API"

Failed(t) == t.st \in {"rejected", "invalid"}

\* no provider call is in flight anywhere
Quiescent == \A r \in Reqs, p \in Personas : task[r][p].st # "inflight"

(***************************************************************************)
(* The /api/generate handler.                                              *)
(***************************************************************************)
CacheEntryFor(b, tasks, t) ==
    [code |-> tasks["achyutha"].result,
     timestamp |-> t,
     analysis |-> tasks["nanjunda"].result,
     security |-> tasks["sandeep"].result,
     base |-> TemplateOf(b),
     customizations |-> b.customizations,
     dependencies |-> RecordedDependencies,
     lastChecked |-> t,
     status |-> "valid",
     issues |-> {}]

\* a put that keeps the entry already stored under the key
CachePutIfAbsent(cache, key, entry) ==
    [k \in DOMAIN cache \cup {key} |-> IF k \in DOMAIN cache THEN cache[k] ELSE entry]

\* contractCache.set(key, entry)
CachePut(cache, key, entry) ==
    [k \in DOMAIN cache \cup {key} |-> IF k = key THEN entry ELSE cache[k]]

\* the catch-all at the end of the handler: 401 and 429 are chosen by text
\* the pipeline's own errors do not carry
statusCodeFor(errorMessage) == 500

ErrorResponse(code, msg, t) ==
    [NoResponse EXCEPT !.status = code, !.error = msg, !.at = t]

\* a handler that stores what it has before it reports the failure
AfterPhaseStoringPartial(r, persona, tasks) ==
    IF pc[r] # "generating"
    THEN UNCHANGED <<pc, response, contractCache>>
    ELSE IF Failed(tasks[persona])
    THEN /\ pc' = [pc EXCEPT ![r] = "done"]
         /\ response' = [response EXCEPT ![r] =
                ErrorResponse(statusCodeFor(PhaseError(tasks[persona])),
                              PhaseError(tasks[persona]), now)]
         /\ contractCache' = CachePut(contractCache, cacheKey[r],
                                      CacheEntryFor(body[r], tasks, now))
    ELSE IF \A q \in Personas : tasks[q].st = "resolved"
    THEN /\ pc' = [pc EXCEPT ![r] = "storing"]
         /\ UNCHANGED <<response, contractCache>>
    ELSE UNCHANGED <<pc, response, contractCache>>

\* Promise.all over the three phases once one of them changed: it rejects
\* with the first rejection, and resolves when all three have resolved; the
\* handler then goes on to build the cache entry
AfterPhase(r, persona, tasks) ==
    IF pc[r] # "generating"
    THEN UNCHANGED <<pc, response, contractCache>>
    ELSE IF Failed(tasks[persona])
    THEN /\ pc' = [pc EXCEPT ![r] = "done"]
         /\ response' = [response EXCEPT ![r] =
                ErrorResponse(statusCodeFor(PhaseError(tasks[persona])),
                              PhaseError(tasks[persona]), now)]
         /\ UNCHANGED contractCache
    ELSE IF \A q \in Personas : tasks[q].st = "resolved"
    THEN /\ pc' = [pc EXCEPT ![r] = "storing"]
         /\ UNCHANGED <<response, contractCache>>
    ELSE UNCHANGED <<pc, response, contractCache>>

\* the handler resumes after the await of analyzeGasUsage inside the cache
\* entry: the entry is completed and stored
Store(r) ==
    /\ pc[r] = "storing"
    /\ contractCache' = CachePut(contractCache, cacheKey[r],
                                 CacheEntryFor(body[r], task[r], now))
    /\ pc' = [pc EXCEPT ![r] = "responding"]
    /\ UNCHANGED <<now, nreq, latest, npublish, apiKeys, mode, body, cacheKey, task,
                   response, prev, lookup>>
    /\ UNCHANGED outside

\* the handler resumes after the await of analyzeGasUsage inside the response
\* object: res.json(response)
Respond(r) ==
    /\ pc[r] = "responding"
    /\ response' = [response EXCEPT ![r] =
            [status |-> 200, success |-> TRUE, fromCache |-> "undefined",
             code |-> task[r]["achyutha"].result,
             analysis |-> task[r]["nanjunda"].result,
             security |-> task[r]["sandeep"].result,
             error |-> "", at |-> now]]
    /\ pc' = [pc EXCEPT ![r] = "done"]
    /\ UNCHANGED <<now, nreq, latest, npublish, apiKeys, mode, contractCache, body,
                   cacheKey, task, prev, lookup>>
    /\ UNCHANGED outside

\* a POST /api/generate arrives on connection r: cache lookup, parameter
\* check, and the three phases started up to their first provider call
Handle(r, b, t) ==
    /\ body' = [body EXCEPT ![r] = b]
    /\ cacheKey' = [cacheKey EXCEPT ![r] = CacheKeyOf(b)]
    /\ prev' = [conn |-> r, body |-> body[r], cacheKey |-> cacheKey[r],
                status |-> response[r].status, fromCache |-> response[r].fromCache,
                at |-> response[r].at]
    /\ now' = t
    /\ nreq' = nreq + 1
    /\ IF CacheHit(contractCache, CacheKeyOf(b), t)
       THEN /\ response' = [response EXCEPT ![r] =
                   [status |-> 200, success |-> TRUE, fromCache |-> "true",
                    code |-> contractCache[CacheKeyOf(b)].code,
                    analysis |-> contractCache[CacheKeyOf(b)].analysis,
                    security |-> contractCache[CacheKeyOf(b)].security,
                    error |-> "", at |-> t]]
            /\ pc' = [pc EXCEPT ![r] = "done"]
            /\ task' = [task EXCEPT ![r] = [p \in Personas |-> NoTask]]
       ELSE IF ~ValidParameters(b)
       THEN /\ response' = [response EXCEPT ![r] =
                   ErrorResponse(400, "Invalid entity type, transaction type, or contract type", t)]
            /\ pc' = [pc EXCEPT ![r] = "done"]
            /\ task' = [task EXCEPT ![r] = [p \in Personas |-> NoTask]]
       ELSE /\ task' = [task EXCEPT ![r] =
                   [p \in Personas |->
                       FallThrough([NoTask EXCEPT !.prompt = PromptOf(p, b)], apiKeys)]]
            /\ pc' = [pc EXCEPT ![r] = "generating"]
            /\ response' = [response EXCEPT ![r] = NoResponse]
    /\ UNCHANGED <<latest, npublish, apiKeys, mode, contractCache, lookup>>
    /\ UNCHANGED outside

\* the client sends its next request d ms after the previous one is over
Receive(b, d) ==
    /\ Quiescent
    /\ pc["c1"] \in {"idle", "done"}
    /\ nreq < MaxReqs
    /\ Handle("c1", b, now + d)

\* the provider call in flight for (r, persona) fails
\* the analysis handed on to the code task, as a pipeline that runs the
\* personas one after the other would do
TasksAfterFeedingForward(tasks, persona, t) ==
    IF persona = "nanjunda" /\ t.st = "resolved" /\ tasks["achyutha"].st = "inflight"
    THEN [tasks EXCEPT ![persona] = t, !["achyutha"].prompt.template = t.result]
    ELSE [tasks EXCEPT ![persona] = t]

\* the three closures of Promise.all share no variable: the outcome of one
\* persona's call is written to that persona's task alone
TasksAfter(tasks, persona, t) == [tasks EXCEPT ![persona] = t]

ProviderFails(r, persona, status) ==
    /\ task[r][persona].st = "inflight"
    /\ mode[task[r][persona].prov] = "auth" => status = 401
    /\ LET t == PhaseOutcome(persona, OnProviderError(task[r][persona], status, apiKeys))
           tasks == TasksAfter(task[r], persona, t)
       IN /\ task' = [task EXCEPT ![r] = tasks]
          /\ AfterPhase(r, persona, tasks)
    /\ UNCHANGED <<now, nreq, latest, npublish, apiKeys, mode, body, cacheKey, prev, lookup>>
    /\ UNCHANGED outside

\* the provider call in flight for (r, persona) answers 200 with a text
ProviderAnswers(r, persona, responseText) ==
    /\ task[r][persona].st = "inflight"
    /\ mode[task[r][persona].prov] # "auth"
    /\ LET t == PhaseOutcome(persona, OnProviderText(task[r][persona], responseText, apiKeys))
           tasks == TasksAfter(task[r], persona, t)
       IN /\ task' = [task EXCEPT ![r] = tasks]
          /\ AfterPhase(r, persona, tasks)
    /\ UNCHANGED <<now, nreq, latest, npublish, apiKeys, mode, body, cacheKey, prev, lookup>>
    /\ UNCHANGED outside

(***************************************************************************)
(* Environment.                                                            *)
(***************************************************************************)
\* time between the end of one request and the arrival of the next
InterArrival == {0, CACHE_DURATION - 1, CACHE_DURATION, CACHE_DURATION + 1}

\* a new version of a tracked package appears on the registry
Publish(pkg, v) ==
    /\ Quiescent
    /\ npublish < MaxPublish
    /\ latest[pkg] # v
    /\ latest' = [latest EXCEPT ![pkg] = v]
    /\ npublish' = npublish + 1
    /\ UNCHANGED <<now, nreq, apiKeys, mode, contractCache, pc, body, cacheKey, task,
                   response, prev, lookup>>
    /\ UNCHANGED outside

\* checkDependencyVersions: the packages whose recorded version, caret
\* removed, is smaller as a string than the registry's latest; a package whose
\* registry request fails is skipped
checkDependencyVersions(dependencies, registry, reachable) ==
    {pkg \in DOMAIN dependencies :
        pkg \in reachable /\ StringLess(StripCaret(dependencies[pkg]), registry[pkg])}

\* getFromCache's verdict on an entry at time t: the status it leaves in
\* validation.status
StatusAfterLookup(entry, t, registry, reachable) ==
    IF t - entry.lastChecked > CACHE_DURATION THEN "outdated"
    ELSE IF checkDependencyVersions(entry.dependencies, registry, reachable) # {} THEN "outdated"
    ELSE entry.status

\* getFromCache(key): null for a missing, expired or outdated entry, which it
\* marks in place; the entry otherwise
getFromCache(key, reachable) ==
    IF key \notin DOMAIN contractCache
    THEN /\ lookup' = [key |-> key, result |-> "null"]
         /\ UNCHANGED contractCache
    ELSE LET entry == contractCache[key]
             outdatedDeps == checkDependencyVersions(entry.dependencies, latest, reachable)
         IN IF now - entry.lastChecked > CACHE_DURATION
            THEN /\ contractCache' = [contractCache EXCEPT ![key].status = "outdated"]
                 /\ lookup' = [key |-> key, result |-> "null"]
            ELSE IF outdatedDeps # {}
            THEN /\ contractCache' = [contractCache EXCEPT ![key].status = "outdated",
                                                           ![key].issues = outdatedDeps]
                 /\ lookup' = [key |-> key, result |-> "null"]
            ELSE /\ lookup' = [key |-> key, result |-> "entry"]
                 /\ UNCHANGED contractCache

\* a caller of the helper looks a request up, the registry being reachable or not
GetFromCache(b, reachable) ==
    /\ Quiescent
    /\ getFromCache(CacheKeyOf(b), reachable)
    /\ UNCHANGED <<now, nreq, latest, npublish, apiKeys, mode, pc, body, cacheKey, task,
                   response, prev>>
    /\ UNCHANGED outside

\* the pipeline as the cache sees it: providers refuse (401) or answer
Next ==
    \/ \E b \in RequestBodies, d \in InterArrival : Receive(b, d)
    \/ \E r \in Reqs, p \in Personas : ProviderFails(r, p, 401)
    \/ \E r \in Reqs, p \in Personas : \E x \in ProviderTexts(p) : ProviderAnswers(r, p, x)
    \/ \E r \in Reqs : Store(r)
    \/ \E r \in Reqs : Respond(r)

Spec == Init /\ [][Next]_vars

\* the cache while the registry moves: providers answer, packages are
\* published, the lookup helper is called
DepsBodies == {Body("LLP", "B2B", "Equity Tokenization", CustAB),
               Body("LLP", "B2C", "Staking Contract", << >>)}

DepsAnswers(persona) == IF persona = "achyutha" THEN {GoodCode} ELSE {Prose}

NextDeps ==
    \/ \E b \in DepsBodies, d \in InterArrival : Receive(b, d)
    \/ \E r \in Reqs, p \in Personas : \E x \in DepsAnswers(p) : ProviderAnswers(r, p, x)
    \/ \E pkg \in Packages, v \in Versions : Publish(pkg, v)
    \/ \E b \in DepsBodies, reachable \in {{}, Packages} : GetFromCache(b, reachable)
    \/ \E r \in Reqs : Store(r)
    \/ \E r \in Reqs : Respond(r)

SpecDeps == Init /\ [][NextDeps]_vars

\* one request through the provider chain in full: every key configuration,
\* every provider either refusing all calls (401) or free to fail or answer
InitChain == InitWith(KeyConfigs, {"auth", "any"})

ReceiveOnce(b) ==
    /\ nreq = 0
    /\ Handle("c1", b, now)

NextChain ==
    \/ \E b \in RequestBodies : ReceiveOnce(b)
    \/ \E r \in Reqs, p \in Personas, status \in ErrorStatuses : ProviderFails(r, p, status)
    \/ \E r \in Reqs, p \in Personas : \E x \in AllProviderTexts(p) : ProviderAnswers(r, p, x)
    \/ \E r \in Reqs : Store(r)
    \/ \E r \in Reqs : Respond(r)

SpecChain == InitChain /\ [][NextChain]_vars

\* two connections served at once, requests differing in customizations and
\* in the order their keys were written
KeyBodies == {Body("LLP", "B2B", "Equity Tokenization", CustAB),
              Body("LLP", "B2B", "Equity Tokenization", CustBA),
              Body("LLP", "B2B", "Equity Tokenization", CustOther),
              Body("LLP", "B2C", "Equity Tokenization", CustAB),
              Body("LLP", "B2C", "Equity Tokenization", CustBA),
              Body("PARTNERSHIP", "B2B", "Supply Chain", << >>)}

Arrive(r, b) ==
    /\ pc[r] = "idle"
    /\ Handle(r, b, now)

NextKey ==
    \/ \E r \in Reqs, b \in KeyBodies : Arrive(r, b)
    \/ \E r \in Reqs, p \in Personas : \E x \in DepsAnswers(p) : ProviderAnswers(r, p, x)
    \/ \E r \in Reqs : Store(r)
    \/ \E r \in Reqs : Respond(r)

SpecKey == Init /\ [][NextKey]_vars

(***************************************************************************)
(* Properties of the generation pipeline.                                  *)
(***************************************************************************)
\* the response of connection r is the locally assembled fallback contract
FallbackResponse(r) ==
    /\ response[r].status = 200
    /\ response[r].success
    /\ response[r].code = TemplateOf(body[r])

\* every phase of connection r ran out of providers
AllPhasesExhausted(r) == \A p \in Personas : task[r][p].st = "rejected"

\* C1: when every provider fails for all three persona tasks of a valid
\* request, the request is still answered with success = true and the
\* locally assembled fallback contract as its artifact.
C1_TotalFailureYieldsFallback ==
    \A r \in Reqs :
        (ValidParameters(body[r]) /\ AllPhasesExhausted(r)) => FallbackResponse(r)

\* C2: a response with success = false and a non-200 status is only ever
\* given to a request that failed the parameter check; a request that passed
\* it is never answered with a failure.
C2_OnlyInvalidRequestsFail ==
    \A r \in Reqs :
        (response[r].status # 0 /\ ~response[r].success) =>
            (~ValidParameters(body[r]) /\ response[r].status = 400)

\* this step is the arrival of a request on connection r
Arrived(r) == nreq' = nreq + 1 /\ prev'.conn = r

\* this step answers the request arriving on connection r from the cache
ServedFromCache(r) == Arrived(r) /\ response'[r].fromCache = "true"

\* C3: when the request just received repeats the previous, answered request
\* within the cache duration, it is answered from the cache (fromCache true)
\* and no provider call is started for it.
C3_RepeatWithinTTLServedFromCache ==
    \A r \in Reqs :
        (/\ prev.conn = r
         /\ prev.status # 0
         /\ pc[r] # "idle"
         /\ body[r] = prev.body
         /\ ValidParameters(body[r])
         /\ now - prev.at < CACHE_DURATION)
        => (/\ response[r].fromCache = "true"
            /\ \A p \in Personas : task[r][p] = NoTask)

\* C4: when the first provider refuses every call with 401, no call to it is
\* ever retried, and the text a phase resolves with comes from the second or
\* the third provider.
C4_AuthRefusalNotRetried ==
    mode[1] = "auth" =>
        \A r \in Reqs, p \in Personas :
            /\ task[r][p].prov = 1 => (task[r][p].retryCount = 0 /\ task[r][p].st = "inflight")
            /\ task[r][p].st = "resolved" => task[r][p].prov \in {2, 3}

\* the first provider refused, a later one delivered, the request succeeded
C4_Witness ==
    /\ mode[1] = "auth"
    /\ "together" \in apiKeys
    /\ \A p \in Personas : task["c1"][p].st = "resolved" /\ task["c1"][p].prov \in {2, 3}
    /\ response["c1"].success

\* C5: the code of a successful response never contains an ellipsis ("...")
\* or the marker "TODO".
C5_NoPlaceholderInArtifact ==
    \A r \in Reqs :
        response[r].success =>
            (~includes(response[r].code, "...") /\ ~includes(response[r].code, "TODO"))

\* a recorded dependency of the entry is not the registry's latest version
DependenciesDiffer(entry, registry) ==
    \E pkg \in DOMAIN entry.dependencies : StripCaret(entry.dependencies[pkg]) # registry[pkg]

\* C6: a request whose cache entry records a dependency version that differs
\* from the latest one is not answered from the cache, even within the cache
\* duration: it is generated again.
C6_DependencyBumpForcesMiss ==
    [][\A r \in Reqs :
         (/\ Arrived(r)
          /\ cacheKey'[r] \in DOMAIN contractCache
          /\ DependenciesDiffer(contractCache[cacheKey'[r]], latest))
         => (response'[r].fromCache # "true" /\ pc'[r] = "generating")]_vars

\* C7: a request is answered from the cache only by an entry written for a
\* request equal to it in every field, customizations included: requests that
\* differ in any field never share a cache entry.
C7_CacheEntryMatchesRequest ==
    \A r \in Reqs :
        response[r].fromCache = "true" =>
            /\ contractCache[cacheKey[r]].customizations = body[r].customizations
            /\ contractCache[cacheKey[r]].base = TemplateOf(body[r])

\* the customizations as the set of their key/value pairs
Entries(customizations) == {customizations[i] : i \in DOMAIN customizations}

\* the same request, the keys of customizations possibly written in another order
SameUpToKeyOrder(b1, b2) ==
    /\ b1.entityType = b2.entityType
    /\ b1.transactionType = b2.transactionType
    /\ b1.contractType = b2.contractType
    /\ Entries(b1.customizations) = Entries(b2.customizations)

\* C8: the cache key is a function of the request alone, and two requests
\* that differ only in the order of the keys of customizations get the same
\* cache key.
C8_KeyIndependentOfKeyOrder ==
    \A r1, r2 \in Reqs :
        (body[r1] # NoBody /\ body[r2] # NoBody /\ SameUpToKeyOrder(body[r1], body[r2]))
            => cacheKey[r1] = cacheKey[r2]

\* both connections carry the same request with the keys in different order
C8_Witness ==
    /\ body["c1"] # NoBody
    /\ body["c1"] # body["c2"]
    /\ body["c1"].customizations # << >>
    /\ SameUpToKeyOrder(body["c1"], body["c2"])
    /\ cacheKey["c1"] = cacheKey["c2"]

\* C9: a request is answered from the cache only by an entry whose status,
\* as the cache's lookup determines it at that moment, is valid; an outdated
\* or invalid entry is never handed out.
C9_OnlyValidEntriesServed ==
    [][\A r \in Reqs :
         ServedFromCache(r) =>
            StatusAfterLookup(contractCache[cacheKey'[r]], now', latest, Packages) = "valid"]_vars

\* no package was published since the entry was written
DependenciesUnchanged(entry, registry) == ~DependenciesDiffer(entry, registry)

\* C10: with dependencies unchanged, a request whose key is in the cache is
\* answered from the cache exactly when the entry's age is at most the cache
\* duration of 7 days; at an age of exactly the cache duration it still is.
C10_HitIffAgeAtMostTTL ==
    [][\A r \in Reqs :
         (/\ Arrived(r)
          /\ cacheKey'[r] \in DOMAIN contractCache
          /\ DependenciesUnchanged(contractCache[cacheKey'[r]], latest))
         => (response'[r].fromCache = "true"
                <=> now' - contractCache[cacheKey'[r]].timestamp <= CACHE_DURATION)]_vars

(***************************************************************************)
(* The combination table of the template controller.                       *)
(***************************************************************************)
\* the nine transaction types every company-like entity of contractMap lists
BusinessTransactions == {"B2C", "B2B", "B2B2C", "B2G", "C2B", "D2C", "C2C", "G2C", "G2B"}

\* contractMap, as the set of <<entityType, transactionType, contractType>> it holds
contractMap ==
    ({"PRIVATE LIMITED COMPANY"} \X {"B2C", "B2B2C"}
        \X {"White Label", "Private Label", "Wholesaling", "Dropshipping", "Subscription Service"})
    \cup ({"PRIVATE LIMITED COMPANY"} \X {"B2B"}
        \X {"Equity Tokenization", "Vesting Agreements", "Supply Chain Management",
            "Revenue Sharing Agreement", "Corporate Governance",
            "Intellectual Property Licensing"})
    \cup ({"PRIVATE LIMITED COMPANY"} \X {"B2G"} \X {"Equity Tokenization", "Vesting Agreements"})
    \cup ({"PRIVATE LIMITED COMPANY"} \X {"C2B", "D2C", "C2C", "G2C", "G2B"}
        \X {"White Label", "Private Label"})
    \cup ({"LIMITED LIABILITY PARTNERSHIP"} \X BusinessTransactions
        \X {"Profit Sharing Agreement", "Dissolution Agreement", "Partner Exit Agreement",
            "Project Collaboration Agreement", "Dispute Resolution Mechanism",
            "Partner Capital Contributions"})
    \cup ({"GENERAL PARTNERSHIP"} \X BusinessTransactions \X {"Purchase of any assets"})
    \cup ({"SOLE PROPRIETORSHIP"} \X BusinessTransactions
        \X {"Sale of any assets (Sale deed)", "Franchisee agreement"})
    \cup ({"ONE PERSON COMPANY"} \X BusinessTransactions
        \X {"Franchisee agreement", "Commercialisation agreement"})
    \cup ({"GOVERNMENT ENTITY"} \X BusinessTransactions
        \X {"Freelancing agreement", "Consulting contract", "Rental agreement",
            "Project management agreement"})
    \cup ({"INDIVIDUAL"} \X {"i2i"} \X {"Will documentation"})
    \cup ({"INDIVIDUAL"} \X {"i2m"} \X {"Parent to children agreements"})
    \cup ({"INDIVIDUAL"} \X {"i2G"} \X {"Individual to Government agreements"})
    \cup ({"INDIVIDUAL"} \X {"C2E", "E2C", "B2E", "E2B", "G2E", "E2G", "E2E"}
        \X {"Commercialisation agreement"})

\* contractMap[entityType]?.[transactionType]?.includes(contractType)
CombinationExists(b) ==
    /\ b.contractType.type = "string"
    /\ <<Interpolate(b.entityType), Interpolate(b.transactionType), b.contractType.text>>
           \in contractMap

(***************************************************************************)
(* One scenario: the first provider refuses every call, the others answer. *)
(***************************************************************************)
ScenarioBodies ==
    { Body("LLP", "B2B", "Profit Sharing Agreement", << >>),
      Body("PRIVATE LIMITED COMPANY", "B2C", "Equity Tokenization", << >>),
      Body("PRIVATE LIMITED COMPANY", "B2B", "Equity Tokenization", << >>) }

InitScenario ==
    /\ InitWith({{"together", "openrouter", "aiml"}}, {"auth", "any"})
    /\ mode = <<"auth", "any", "any">>

NextScenario ==
    \/ \E b \in ScenarioBodies, d \in InterArrival : Receive(b, d)
    \/ \E r \in Reqs, p \in Personas : ProviderFails(r, p, 401)
    \/ \E r \in Reqs, p \in Personas : \E x \in DepsAnswers(p) : ProviderAnswers(r, p, x)
    \/ \E r \in Reqs : Store(r)
    \/ \E r \in Reqs : Respond(r)

SpecScenario == InitScenario /\ [][NextScenario]_vars

\* C11: a request is accepted only if its triple of entity type, transaction
\* type and contract type is in the combination table; a request with any
\* other triple, each field allowed on its own or not, is answered 400 and
\* starts no provider call.
C11_OnlyTableCombinationsAccepted ==
    \A r \in Reqs :
        (pc[r] # "idle" /\ ~CombinationExists(body[r])) =>
            (response[r].status = 400 /\ \A p \in Personas : task[r][p] = NoTask)

\* the request of the scenario
ProfitSharingRequest == Body("LLP", "B2B", "Profit Sharing Agreement", << >>)

\* C12: with the first provider answering 401 and the second answering valid
\* 600-character code, the request {LLP, B2B, Profit Sharing Agreement} is
\* answered successfully with the second provider's text and not from the
\* cache; repeated within the cache duration it is answered with the same
\* text from the cache.
C12_ProfitSharingScenario ==
    \A r \in Reqs :
        (body[r] = ProfitSharingRequest /\ pc[r] = "done") =>
            /\ response[r].success
            /\ response[r].code = GoodCode
            /\ response[r].fromCache = "true"
                <=> (/\ prev.conn = r
                     /\ prev.body = body[r]
                     /\ prev.status # 0
                     /\ now - prev.at < CACHE_DURATION)

\* this step is the cache write of the request on connection r
Completed(r) == pc[r] = "storing" /\ pc'[r] = "responding"

\* C13: cache writes are atomic and last-writer-wins: a request that
\* completes stores its own entry, whole, under its key, replacing whatever
\* was there, and the cache changes in no other way: no entry ever mixes
\* fields of two requests.
C13_CacheWriteIsWholeAndLast ==
    [][/\ \A r \in Reqs :
            Completed(r) =>
                contractCache'[cacheKey[r]] = CacheEntryFor(body[r], task'[r], now)
       /\ contractCache' # contractCache =>
            \E r \in Reqs :
                /\ Completed(r)
                /\ DOMAIN contractCache' = DOMAIN contractCache \cup {cacheKey[r]}
                /\ \A k \in DOMAIN contractCache \ {cacheKey[r]} :
                        contractCache'[k] = contractCache[k]]_vars

\* two concurrent requests with the same key and different customizations
\* have both written; the entry is the one of a single writer
C13_Witness ==
    /\ \A r \in Reqs : pc[r] = "done" /\ response[r].success /\ response[r].fromCache # "true"
    /\ cacheKey["c1"] = cacheKey["c2"]
    /\ body["c1"].customizations # body["c2"].customizations
    /\ contractCache[cacheKey["c1"]].customizations = body["c2"].customizations
    /\ contractCache[cacheKey["c1"]].base = TemplateOf(body["c2"])

\* every phase of connection r has come to its outcome
AllSettled(r) == \A p \in Personas : task[r][p].st \in {"resolved", "rejected", "invalid"}

\* C14: when the analysis or the security phase fails on every provider and
\* the code phase succeeds, all three phases still run to their own outcome
\* and the request is answered with the generated code.
C14_SidePhaseFailureKeepsArtifact ==
    \A r \in Reqs :
        (/\ AllSettled(r)
         /\ task[r]["achyutha"].st = "resolved"
         /\ task[r]["nanjunda"].st = "rejected" \/ task[r]["sandeep"].st = "rejected")
        => (/\ response[r].success
            /\ response[r].code = task[r]["achyutha"].result)

\* C15: when the code phase fails on every provider, the response carries
\* the fallback template as its code, and the analysis and security texts a
\* provider did deliver for the request are attached to it.
C15_CodeFailureFallsBackWithTexts ==
    \A r \in Reqs :
        (AllSettled(r) /\ task[r]["achyutha"].st = "rejected") =>
            /\ FallbackResponse(r)
            /\ task[r]["nanjunda"].st = "resolved" =>
                    response[r].analysis = task[r]["nanjunda"].result
            /\ task[r]["sandeep"].st = "resolved" =>
                    response[r].security = task[r]["sandeep"].result

\* C16: a response is sent only after all three phases of the request have
\* come to their outcome: no response exists while a provider call of the
\* request is still in flight.
C16_ResponseAfterAllPhases ==
    \A r \in Reqs :
        response[r].status # 0 => \A p \in Personas : task[r][p].st # "inflight"

\* this step ends the call in flight for (r, p) without a result the chain
\* accepts: an error that is not retried, or retried to the limit, or an
\* answer that is too short
CallGivenUp(r, p) ==
    \/ \E status \in ErrorStatuses :
          /\ ProviderFails(r, p, status)
          /\ NoRetryStatus(status) \/ task[r][p].retryCount = maxRetries
    \/ \E x \in AllProviderTexts(p) :
          /\ ProviderAnswers(r, p, x)
          /\ ResponseTooShort(x)

C18_RejectedCodeTriesNextProvider ==
    \A r \in Reqs :
        task[r]["achyutha"].st = "invalid" =>
            \A k \in (task[r]["achyutha"].prov + 1)..NumProviders :
                ProviderOrder[k] \notin apiKeys

\* C19: a call that fails with a retryable error is retried at most 2 times
\* (3 calls in total) before the chain moves on; the delay before the first
\* retry is 1 second, it doubles with every retry and never exceeds 8 seconds.
C19_TwoRetriesFromOneSecond ==
    \A r \in Reqs, p \in Personas :
        /\ task[r][p].retryCount <= 2
        /\ task[r][p].retryCount >= 1 =>
                task[r][p].delay = 1000 * 2 ^ (task[r][p].retryCount - 1)
        /\ task[r][p].delay <= 8000

\* C19, as the interceptor does it: a call is retried at most 3 times (4
\* calls in total) before the chain moves on; the delay before the first
\* retry is 2 seconds, it doubles with every retry (2 s, 4 s, 8 s) and never
\* exceeds 8 seconds.
C19_ThreeRetriesFromTwoSeconds ==
    \A r \in Reqs, p \in Personas :
        /\ task[r][p].retryCount <= 3
        /\ task[r][p].retryCount >= 1 =>
                task[r][p].delay = 1000 * 2 ^ task[r][p].retryCount
        /\ task[r][p].retryCount = 0 => task[r][p].delay = 0
        /\ task[r][p].delay <= 8000

\* a call is in its third retry, started after a delay of 8 seconds
C19_Witness ==
    \E p \in Personas :
        /\ task["c1"][p].st = "inflight"
        /\ task["c1"][p].retryCount = 3
        /\ task["c1"][p].delay = 8000

\* the call in flight for (r, p) comes back, with an error or with a text
CallReturns(r, p) ==
    \/ \E status \in ErrorStatuses : ProviderFails(r, p, status)
    \/ \E x \in AllProviderTexts(p) : ProviderAnswers(r, p, x)

\* every provider call eventually returns or fails, and a handler that can
\* resume after an await does resume
FairChain ==
    /\ \A r \in Reqs, p \in Personas : WF_vars(CallReturns(r, p))
    /\ \A r \in Reqs : WF_vars(Store(r)) /\ WF_vars(Respond(r))

SpecChainFair == SpecChain /\ FairChain

\* the request on connection r has left generation and has its response
Answered(r) == pc[r] = "done" /\ response[r].status # 0

\* every request that starts generating is eventually answered
GeneratingEnds == \A r \in Reqs : (pc[r] = "generating") ~> Answered(r)

\* C20: generation always terminates with an artifact: every request that
\* passed the parameter check and started generating is eventually answered
\* successfully, with code from a provider or with the fallback template.
C20_GeneratingEndsWithArtifact ==
    \A r \in Reqs :
        (pc[r] = "generating") ~>
            (Answered(r) /\ response[r].success /\ response[r].code # NoText)

(***************************************************************************)
(* One request whose code phase is answered with code of any structure.    *)
(***************************************************************************)
\* what the contract keyword brings with it when it is followed by a space
ContractKeyword == {"contract", "contract "}

\* 600 characters of code with any choice of license header, pragma,
\* contract declaration and function, and the answer that is too short
ContentTexts ==
    { [id |-> "generated", len |-> 600,
       marks |-> (m \ {"contract"}) \cup (IF "contract" \in m THEN ContractKeyword ELSE {})] :
        m \in SUBSET {"SPDX-License-Identifier", "pragma solidity", "contract", "function "} }
    \cup {ShortCode}

ContentAnswers(persona) == IF persona = "achyutha" THEN ContentTexts ELSE {Prose}

NextContent ==
    \/ \E b \in DepsBodies : ReceiveOnce(b)
    \/ \E r \in Reqs, p \in Personas : ProviderFails(r, p, 401)
    \/ \E r \in Reqs, p \in Personas : \E x \in ContentAnswers(p) : ProviderAnswers(r, p, x)
    \/ \E r \in Reqs : Store(r)
    \/ \E r \in Reqs : Respond(r)

SpecContent == Init /\ [][NextContent]_vars

\* C21: generated code is accepted only if it has the minimum length and
\* carries a license header, a contract declaration and at least one
\* function; code lacking any of these is never returned as the artifact of
\* a successful generation.
C21_AcceptedCodeHasStructure ==
    \A r \in Reqs :
        (response[r].success /\ response[r].fromCache # "true") =>
            /\ response[r].code.len >= MinResponseLength
            /\ includes(response[r].code, "SPDX-License-Identifier")
            /\ includes(response[r].code, "contract")
            /\ includes(response[r].code, "function ")

\* the entry holds texts that passed the checks of the pipeline: the length
\* test of processWithPersona for all three, the code check for the code
Validated(entry) ==
    /\ GeneratedCodeIsComplete(entry.code)
    /\ ~ResponseTooShort(entry.code)
    /\ ~ResponseTooShort(entry.analysis)
    /\ ~ResponseTooShort(entry.security)

\* the entry was built for a request that passed the parameter check and has
\* the given key
BuiltFor(entry, key) ==
    \E b \in RequestBodies :
        /\ ValidParameters(b)
        /\ CacheKeyOf(b) = key
        /\ entry.base = TemplateOf(b)
        /\ entry.customizations = b.customizations

\* C22: every cache entry holds a result that passed content validation and
\* was generated for a request whose key is the entry's key; provider output
\* that was not validated is never in the cache.
C22_CacheHoldsValidatedResults ==
    \A k \in DOMAIN contractCache :
        Validated(contractCache[k]) /\ BuiltFor(contractCache[k], k)

\* a generation whose code came from the second provider is in the cache
C22_Witness ==
    /\ cacheKey["c1"] \in DOMAIN contractCache
    /\ contractCache[cacheKey["c1"]].code = task["c1"]["achyutha"].result
    /\ task["c1"]["achyutha"].prov = 2
    /\ response["c1"].success

\* the persona tasks of r that a step changed
TasksChanged(r) == { p \in Personas : task'[r][p] # task[r][p] }

TemplateEntities == EntityType \cup {"TRUST"}

TemplateTransactions == TransactionType \cup {"G2G"}

TemplateContracts == ContractType \cup {"Profit Sharing Agreement"}

TemplateCustomizations == {<< >>, CustAB}

InitTemplate ==
    /\ InitHandler({{"together", "openrouter", "aiml"}}, {"any"})
    /\ template \in { [st |-> "called", contractType |-> c, entityType |-> e,
                       transactionType |-> t, customizations |-> cust,
                       result |-> NoText] :
                        c \in TemplateContracts, e \in TemplateEntities,
                        t \in TemplateTransactions, cust \in TemplateCustomizations }
    /\ client = NoClient
    /\ server = NoServer
    /\ api = NoApi

\* the call returns the assembled text
GetContractTemplate ==
    /\ template.st = "called"
    /\ template' = [template EXCEPT
                       !.st = "returned",
                       !.result = getContractTemplate(template.contractType,
                                      template.entityType, template.transactionType,
                                      template.customizations)]
    /\ UNCHANGED <<handlerVars, client, server, api>>

NextTemplate == GetContractTemplate

SpecTemplate == InitTemplate /\ [][NextTemplate]_vars

\* a fragment of the returned text that belongs to a value with no entry
MissingFragments ==
    LET f == template.result.fragments IN
      (IF template.contractType \in ContractType THEN {} ELSE {f[1]})
      \cup (IF template.entityType \in EntityType THEN {} ELSE {f[2], f[5], f[8]})
      \cup (IF template.transactionType \in TransactionType THEN {} ELSE {f[3], f[6], f[9]})

ArrayBody(e, t, c, cust) == [Body(e, t, c, cust) EXCEPT !.entityType = Arr(<<e>>)]

\* a valid request, the same with its entity type in an array, and a
\* request with an entity type that is not allowed
JsonBodies ==
    { Body("LLP", "B2B", "Equity Tokenization", << >>),
      ArrayBody("LLP", "B2B", "Equity Tokenization", << >>),
      Body("TRUST", "B2B", "Equity Tokenization", << >>) }

NextJson ==
    \/ \E b \in JsonBodies, d \in InterArrival : Receive(b, d)
    \/ \E r \in Reqs, p \in Personas : ProviderFails(r, p, 401)
    \/ \E r \in Reqs, p \in Personas : \E x \in DepsAnswers(p) : ProviderAnswers(r, p, x)
    \/ \E r \in Reqs : Store(r)
    \/ \E r \in Reqs : Respond(r)

SpecJson == Init /\ [][NextJson]_vars

\* C25: although the cache is looked up before the parameters are checked, a
\* request with an entity type, transaction type or contract type that is
\* not allowed is never answered from the cache: no rejected request has the
\* key of a cache entry.
C25_InvalidRequestNeverServedFromCache ==
    \A r \in Reqs :
        response[r].fromCache = "true" => ValidParameters(body[r])

\* this step sends an error response on connection r
EndsInError(r) == response'[r] # response[r] /\ response'[r].status \notin {0, 200}

\* C26: a generation that ends in an error leaves the cache exactly as it
\* was: the step that sends an error response does not change the cache, the
\* cache changes only in the step that follows the three resolved phases,
\* and a request that has taken that step is answered with success.
C26_ErrorLeavesCacheUnchanged ==
    [][/\ \A r \in Reqs : EndsInError(r) => contractCache' = contractCache
       /\ contractCache' # contractCache => \E r \in Reqs : Completed(r)
       /\ \A r \in Reqs :
            (pc[r] = "responding" /\ pc'[r] # "responding") =>
                (pc'[r] = "done" /\ response'[r].success)]_vars

\* a generation failed with 500 while the cache held the entry of the
\* request answered before it
C26_Witness ==
    /\ response["c1"].status = 500
    /\ prev.status = 200
    /\ prev.cacheKey \in DOMAIN contractCache
    /\ contractCache[prev.cacheKey].timestamp = prev.at

(***************************************************************************)
(* One client asking for the same contract again and again.                *)
(***************************************************************************)
RereadBodies == {Body("LLP", "B2B", "Equity Tokenization", CustAB),
                 Body("LLP", "B2B", "Equity Tokenization", CustOther)}

\* the client sends its next request d ms after the previous one is over
Reread(b, d) ==
    /\ Quiescent
    /\ pc["c1"] \in {"idle", "done"}
    /\ nreq < MaxRereads
    /\ Handle("c1", b, now + d)

NextReread ==
    \/ \E b \in RereadBodies, d \in InterArrival : Reread(b, d)
    \/ \E r \in Reqs, p \in Personas : ProviderFails(r, p, 401)
    \/ \E r \in Reqs, p \in Personas : \E x \in DepsAnswers(p) : ProviderAnswers(r, p, x)
    \/ \E r \in Reqs : Store(r)
    \/ \E r \in Reqs : Respond(r)

SpecReread == Init /\ [][NextReread]_vars

ClientOutcomes ==
    { [status |-> 200, success |-> TRUE], [status |-> 200, success |-> FALSE],
      [status |-> 400, success |-> FALSE], [status |-> 401, success |-> FALSE],
      [status |-> 402, success |-> FALSE], [status |-> 429, success |-> FALSE],
      [status |-> 500, success |-> FALSE], [status |-> 0, success |-> FALSE] }

\* the promise of axios.post resolves
Resolves(outcome) == outcome.status >= 200 /\ outcome.status < 500

InitClient ==
    /\ InitHandler({{"together", "openrouter", "aiml"}}, {"any"})
    /\ template = NoCall
    /\ client = NoClient
    /\ server = NoServer
    /\ api = NoApi

\* let retries = 2; let success = false; and the first pass of the loop
\* up to its axios.post
ClientStart ==
    /\ client.st = "idle"
    /\ client' = [st |-> "posting", retries |-> 2, success |-> FALSE, posts |-> 1,
                  status |-> 0, waited |-> 0]
    /\ UNCHANGED <<handlerVars, template, server, api>>

\* the catch block: retries--, rethrow below zero, else wait 3 seconds
ClientCatch(c, outcome) ==
    IF c.retries - 1 < 0
    THEN [c EXCEPT !.st = "failed", !.retries = c.retries - 1, !.status = outcome.status]
    ELSE [c EXCEPT !.st = "waiting", !.retries = c.retries - 1, !.status = outcome.status,
                   !.waited = c.waited + 3000]

\* the POST in flight comes back
ClientResponse(outcome) ==
    /\ client.st = "posting"
    /\ client' =
         IF Resolves(outcome) /\ outcome.status = 200 /\ outcome.success
         THEN [client EXCEPT !.st = "done", !.success = TRUE, !.status = 200]
         ELSE IF Resolves(outcome) /\ outcome.status = 402
         THEN [client EXCEPT !.st = "waiting", !.status = 402,
                             !.waited = client.waited + 5000]
         ELSE ClientCatch(client, outcome)
    /\ UNCHANGED <<handlerVars, template, server, api>>

\* the timer of the wait fires and the loop test passes: the next POST
ClientResend ==
    /\ client.st = "waiting"
    /\ client.retries >= 0 /\ ~client.success
    /\ client.posts < MaxPosts
    /\ client' = [client EXCEPT !.st = "posting", !.posts = client.posts + 1]
    /\ UNCHANGED <<handlerVars, template, server, api>>

NextClient ==
    \/ ClientStart
    \/ \E outcome \in ClientOutcomes : ClientResponse(outcome)
    \/ ClientResend

SpecClient == InitClient /\ [][NextClient]_vars

\* C28: the retry loop of the browser sends at most 3 POSTs for one
\* generation, whatever statuses the server answers with, 402 included.
C28_AtMostThreePosts ==
    client.st # "idle" => client.posts <= 3

(***************************************************************************)
(* startServer.                                                            *)
(***************************************************************************)
Ports == DEFAULT_PORT..(DEFAULT_PORT + NumPorts - 1)

\* what httpServer.listen on a port leads to: the listening event, an error
\* event with code EADDRINUSE, or an error event with another code
PortStates == {"free", "inuse", "denied"}

InitServer ==
    /\ InitHandler({{"together", "openrouter", "aiml"}}, {"any"})
    /\ template = NoCall
    /\ client = NoClient
    /\ server \in { [st |-> "idle", ports |-> f, currentPort |-> 0, attempts |-> 0,
                     listens |-> 0] : f \in [Ports -> PortStates] }
    /\ api = NoApi

\* startServer(DEFAULT_PORT) up to the first httpServer.listen
StartServer ==
    /\ server.st = "idle"
    /\ server' = [server EXCEPT !.st = "awaiting", !.currentPort = DEFAULT_PORT,
                                !.attempts = 0, !.listens = 1]
    /\ UNCHANGED <<handlerVars, template, client, api>>

\* the listening event: resolve(), break, the function returns
Listening ==
    /\ server.st = "awaiting"
    /\ server.ports[server.currentPort] = "free"
    /\ server' = [server EXCEPT !.st = "listening"]
    /\ UNCHANGED <<handlerVars, template, client, api>>

\* the error event with EADDRINUSE: the handler closes the server and
\* counts, and calls neither resolve nor reject: the await stays pending
AddressInUse ==
    /\ server.st = "awaiting"
    /\ server.ports[server.currentPort] = "inuse"
    /\ server' = [server EXCEPT !.st = "pending",
                                !.currentPort = server.currentPort + 1,
                                !.attempts = server.attempts + 1]
    /\ UNCHANGED <<handlerVars, template, client, api>>

\* the error event with another code: reject(err), the catch block, and,
\* unless it throws, the next pass of the loop up to httpServer.listen
OtherError ==
    /\ server.st = "awaiting"
    /\ server.ports[server.currentPort] = "denied"
    /\ server' =
         IF server.attempts = MAX_PORT_ATTEMPTS - 1
         THEN [server EXCEPT !.st = "thrown"]
         ELSE IF server.attempts < MAX_PORT_ATTEMPTS
         THEN [server EXCEPT !.listens =
                    IF server.listens < MaxListens THEN server.listens + 1 ELSE MaxListens]
         ELSE [server EXCEPT !.st = "returned"]
    /\ UNCHANGED <<handlerVars, template, client, api>>

NextServer ==
    \/ StartServer
    \/ Listening
    \/ AddressInUse
    \/ OtherError

SpecServer == InitServer /\ [][NextServer]_vars

\* the call is made, and every event the server is waiting for arrives
FairServer ==
    /\ WF_vars(StartServer)
    /\ WF_vars(Listening)
    /\ WF_vars(AddressInUse)
    /\ WF_vars(OtherError)

SpecServerFair == SpecServer /\ FairServer

\* C29: startServer always terminates: it returns once the server is
\* listening, or it throws after at most MAX_PORT_ATTEMPTS ports in use.
C29_StartServerTerminates ==
    <>(server.st \in {"listening", "returned", "thrown"})

(***************************************************************************)
(* The frontend's apiClient.                                               *)
(***************************************************************************)
\* the retry fields a caller can put into the config of a request; 0 stands
\* for a field that is absent or zero, which `||` does not tell apart
ApiConfigs ==
    { [retryCount |-> 0, maxRetries |-> m, retryDelay |-> d] :
        m \in {0, 1, 2}, d \in {0, 500} }

\* statuses that resolve the request (validateStatus: 200 <= status < 500)
ApiResolving == {200, 401, 404}

\* statuses that reject it, and 0 for a request that got no response
ApiRejecting == {0, 500, 503}

\* x || d
OrDefault(x, d) == IF x = 0 THEN d ELSE x

\* a request interceptor that starts every send with a fresh counter
requestInterceptorResetting(config) ==
    [retryCount |-> 0,
     maxRetries |-> OrDefault(config.maxRetries, 3),
     retryDelay |-> OrDefault(config.retryDelay, 1000)]

\* the request interceptor: the retry fields of the config it returns
requestInterceptor(config) ==
    [retryCount |-> OrDefault(config.retryCount, 0),
     maxRetries |-> OrDefault(config.maxRetries, 3),
     retryDelay |-> OrDefault(config.retryDelay, 1000)]

formatError(status) ==
    IF status # 0
    THEN [message |-> "Server error occurred", code |-> "SERVER_ERROR", status |-> status]
    ELSE [message |-> "No response from server. Please check your internet connection.",
          code |-> "NETWORK_ERROR", status |-> 0]

NoError == [message |-> "", code |-> "", status |-> 0]

InitApi ==
    /\ InitHandler({{"together", "openrouter", "aiml"}}, {"any"})
    /\ template = NoCall
    /\ client = NoClient
    /\ server = NoServer
    /\ api = NoApi

\* apiClient(config) by a caller: the request interceptor, then the send
ApiRequest(config) ==
    /\ api.st = "idle"
    /\ api' = [st |-> "sending", given |-> config, config |-> requestInterceptor(config),
               calls |-> 1, delay |-> 0, status |-> 0, error |-> NoError]
    /\ UNCHANGED <<handlerVars, template, client, server>>

\* a response with a status validateStatus accepts: the promise resolves
ApiResolves(status) ==
    /\ api.st = "sending"
    /\ api' = [api EXCEPT !.st = "resolved", !.status = status]
    /\ UNCHANGED <<handlerVars, template, client, server>>

\* the response interceptor's error handler
ApiRejects(status) ==
    /\ api.st = "sending"
    /\ api' =
         IF status \in {401, 403}
         THEN [api EXCEPT !.st = "rejected", !.status = status, !.error = formatError(status)]
         ELSE IF api.config.retryCount < api.config.maxRetries
         THEN [api EXCEPT !.st = "waiting", !.status = status,
                          !.config.retryCount = api.config.retryCount + 1,
                          !.delay = api.config.retryDelay * 2 ^ api.config.retryCount]
         ELSE [api EXCEPT !.st = "rejected", !.status = status, !.error = formatError(status)]
    /\ UNCHANGED <<handlerVars, template, client, server>>

\* the delay is over: apiClient(config), the request interceptor again, the send
ApiRetry ==
    /\ api.st = "waiting"
    /\ api' = [api EXCEPT !.st = "sending", !.config = requestInterceptor(api.config),
                          !.calls = api.calls + 1]
    /\ UNCHANGED <<handlerVars, template, client, server>>

NextApi ==
    \/ \E config \in ApiConfigs : ApiRequest(config)
    \/ \E status \in ApiResolving : ApiResolves(status)
    \/ \E status \in ApiRejecting : ApiRejects(status)
    \/ ApiRetry

SpecApi == InitApi /\ [][NextApi]_vars

\* C30: a request sent through apiClient is re-sent after a failure at most
\* maxRetries times (3 when the caller gives none), so at most maxRetries + 1
\* calls are made; it is then rejected with the formatted error; the retry
\* counter only grows and is never reset.
C30_AtMostMaxRetriesResends ==
    [][api'.st # "idle" =>
         /\ api'.config.maxRetries = OrDefault(api'.given.maxRetries, 3)
         /\ api'.config.retryCount <= api'.config.maxRetries
         /\ api'.calls <= api'.config.maxRetries + 1
         /\ api'.st = "rejected" =>
                /\ api'.config.retryCount = api'.config.maxRetries
                /\ api'.error = formatError(api'.status)
         /\ api.st # "idle" => api'.config.retryCount >= api.config.retryCount]_vars

\* with no retry fields given, the fourth call has failed and the request
\* is rejected
C30_Witness ==
    /\ api.st = "rejected"
    /\ api.given.maxRetries = 0
    /\ api.calls = 4
    /\ api.config.retryCount = 3
    /\ api.error.code = "SERVER_ERROR"

=============================================================================
